---- MODULE Spec2Model ----
(***************************************************************************)
(* Neo4j diagnostic scripts of rljonesiii/datamind:                        *)
(*   scripts/diagnose_neo4j.py              (URI parse, reachability,      *)
(*                                           three-scenario probe loop)    *)
(*   scripts/discover_neo4j_credentials.py  (nine-combination probe loop)  *)
(*   scripts/interactive_neo4j_setup.py     (menu loop, .env rewrite)      *)
(* Text is modelled as sequences of one-character strings. Python ints are *)
(* arbitrary precision and are modelled as sign + decimal digit sequence.  *)
(* The graph client (neo4j.GraphDatabase), the socket layer and the        *)
(* terminal are external: their outcomes are chosen nondeterministically.  *)
(***************************************************************************)
EXTENDS Integers, Sequences, FiniteSets, TLC

VARIABLES
    script,      \* which script's __main__ is running
    pc,          \* position inside the script
    uri,         \* NEO4J_URI
    cfgUser,     \* NEO4J_USER
    cfgPass,     \* NEO4J_PASSWORD
    endpoint,    \* diagnose_neo4j: <<[host, port]>> after the parse step
    netCalls,    \* socket.create_connection calls made so far
    idx,         \* index of the list entry the loop is at
    driver,      \* diagnose_neo4j: local variable `driver` (0 = unbound)
    drivers,     \* every driver object constructed so far
    closes,      \* every driver.close() call made so far
    attempts,    \* credentials handed to GraphDatabase.driver(auth=...)
    results,     \* per-candidate result lines printed so far
    successful,  \* discover: successful_credentials
    verdict,     \* the reported working candidate (<<>> = none)
    anomalies,   \* unusual collaborator outcomes used so far (model bound)
    rounds,      \* interactive: menu iterations so far (model bound)
    escaped,     \* exception that left the script uncaught ("none")
    exitCode,    \* process exit code (<<>> while the script runs)
    envFile0,    \* .env before the script ran: [exists, text]
    envFile,     \* .env content now
    envWrites,   \* update_env_file calls that wrote .env: <<user, password>>
    prompts      \* interactive: answers typed at the update prompt

vars == <<script, pc, uri, cfgUser, cfgPass, endpoint, netCalls, idx, driver,
          drivers, closes, attempts, results, successful, verdict, anomalies,
          rounds, escaped, exitCode, envFile0, envFile, envWrites,
          prompts>>

-----------------------------------------------------------------------------
(* Bounds of the model *)

\* longest host[:port] remainder enumerated after the scheme
MaxRemLen == 3
\* unusual collaborator outcomes per run: a driver constructor that raises,
\* an error whose text is not the standard one
MaxAnomalies == 1
\* menu iterations of the interactive helper per run
MaxRounds == 2
\* text segments a generated .env file is made of
MaxSegs == 3

-----------------------------------------------------------------------------
(* Text helpers: str.startswith, str.replace(old, ''), str.split(sep) *)

StartsWith(s, p) ==
    /\ Len(s) >= Len(p)
    /\ SubSeq(s, 1, Len(p)) = p

RECURSIVE RemoveAll(_, _)
RemoveAll(s, old) ==
    IF Len(s) < Len(old) \/ Len(old) = 0 THEN s
    ELSE IF StartsWith(s, old)
         THEN RemoveAll(SubSeq(s, Len(old) + 1, Len(s)), old)
         ELSE <<s[1]>> \o RemoveAll(Tail(s), old)

Contains(s, c) == \E i \in 1..Len(s) : s[i] = c

\* str.split(c): the parts between the separators (always at least one part)
RECURSIVE Split(_, _)
Split(s, c) ==
    IF ~Contains(s, c) THEN <<s>>
    ELSE LET i == CHOOSE k \in 1..Len(s) :
                      s[k] = c /\ \A j \in 1..(k - 1) : s[j] # c
         IN <<SubSeq(s, 1, i - 1)>> \o Split(SubSeq(s, i + 1, Len(s)), c)

RECURSIVE Flatten(_)
Flatten(ss) == IF ss = <<>> THEN <<>> ELSE ss[1] \o Flatten(Tail(ss))

-----------------------------------------------------------------------------
(* Python int: sign and decimal magnitude, int(str) and C long conversion *)

DigitChars == {"0", "1", "2", "3", "4", "5", "6", "7", "8", "9"}

DigitVal(c) ==
    CASE c = "0" -> 0 [] c = "1" -> 1 [] c = "2" -> 2 [] c = "3" -> 3
      [] c = "4" -> 4 [] c = "5" -> 5 [] c = "6" -> 6 [] c = "7" -> 7
      [] c = "8" -> 8 [] c = "9" -> 9

RECURSIVE StripZeros(_)
StripZeros(d) ==
    IF Len(d) > 1 /\ d[1] = 0 THEN StripZeros(Tail(d)) ELSE d

\* decimal digits of a natural number, most significant first
RECURSIVE DigitsOf(_)
DigitsOf(n) == IF n < 10 THEN <<n>> ELSE DigitsOf(n \div 10) \o <<n % 10>>

BigInt(n) == [neg |-> FALSE, mag |-> DigitsOf(n)]

\* a < b for digit sequences without leading zeros
RECURSIVE MagLess(_, _)
MagLess(a, b) ==
    IF Len(a) # Len(b) THEN Len(a) < Len(b)
    ELSE IF a = <<>> THEN FALSE
    ELSE IF a[1] # b[1] THEN a[1] < b[1]
    ELSE MagLess(Tail(a), Tail(b))

\* int(s) for s over digits, '+' and '-': IsIntLiteral(s) or ValueError.
\* (Python also accepts surrounding blanks and single underscores between
\* digits; the enumerated texts contain neither.)
IsIntLiteral(s) ==
    LET signed == Len(s) >= 1 /\ s[1] \in {"-", "+"}
        body   == IF signed THEN Tail(s) ELSE s
    IN body # <<>> /\ \A i \in 1..Len(body) : body[i] \in DigitChars

IntOf(s) ==
    LET signed == Len(s) >= 1 /\ s[1] \in {"-", "+"}
        body   == IF signed THEN Tail(s) ELSE s
        mag    == StripZeros([i \in 1..Len(body) |-> DigitVal(body[i])])
    IN [neg |-> signed /\ s[1] = "-" /\ mag # <<0>>, mag |-> mag]

\* 2^63 - 1 and 2^63: the range of a C long on the 64-bit builds
LongMaxMag == <<9, 2, 2, 3, 3, 7, 2, 0, 3, 6, 8, 5, 4, 7, 7, 5, 8, 0, 7>>
LongMinMag == <<9, 2, 2, 3, 3, 7, 2, 0, 3, 6, 8, 5, 4, 7, 7, 5, 8, 0, 8>>

FitsCLong(n) ==
    IF n.neg THEN ~MagLess(LongMinMag, n.mag) ELSE ~MagLess(LongMaxMag, n.mag)

-----------------------------------------------------------------------------
(* Words used by the scripts *)

Bolt == <<"b", "o", "l", "t", ":", "/", "/">>
Neo4jScheme == <<"n", "e", "o", "4", "j", ":", "/", "/">>
Neo4j == <<"n", "e", "o", "4", "j">>
PasswordWord == <<"p", "a", "s", "s", "w", "o", "r", "d">>
Admin == <<"a", "d", "m", "i", "n">>
OneToSix == <<"1", "2", "3", "4", "5", "6">>
TestWord == <<"t", "e", "s", "t">>
Desktop == <<"d", "e", "s", "k", "t", "o", "p">>
Neo4jPassword == Neo4j \o PasswordWord
Localhost == <<"l", "o", "c", "a", "l", "h", "o", "s", "t">>

DefaultPort == 7687
DefaultURI == Bolt \o Localhost \o <<":", "7", "6", "8", "7">>

-----------------------------------------------------------------------------
(* diagnose_neo4j: the parse step *)

\* uri.startswith('bolt://'), uri.replace('bolt://', ''), ':' in host_port,
\* host, port = host_port.split(':') (exactly two parts or ValueError),
\* int(port) (ValueError on a non-number), default port otherwise
\* a scheme check that accepts every scheme://
SupportedAnyScheme(u) ==
    \E i \in 1..Len(u) : StartsWith(SubSeq(u, i, Len(u)), <<":", "/", "/">>)

\* uri.startswith('bolt://')
Supported(u) == StartsWith(u, Bolt)

\* a slice that starts one character late
HostPortSliced(u) == SubSeq(u, Len(Bolt) + 2, Len(u))

\* uri.replace('bolt://', '')
HostPort(u) == RemoveAll(u, Bolt)

ParseURI(u) ==
    IF ~Supported(u)
    THEN [kind |-> "unsupported"]
    ELSE LET host_port == HostPort(u)
         IN IF Contains(host_port, ":")
            THEN LET parts == Split(host_port, ":")
                 IN IF Len(parts) # 2 \/ ~IsIntLiteral(parts[2])
                    THEN [kind |-> "ValueError"]
                    ELSE [kind |-> "ok", host |-> parts[1],
                          port |-> IntOf(parts[2])]
            ELSE [kind |-> "ok", host |-> host_port,
                  port |-> BigInt(DefaultPort)]

-----------------------------------------------------------------------------
(* The socket layer under test_network_connectivity *)

\* the idna step of getaddrinfo rejects a host with an empty label
\* (one trailing dot is allowed, the empty host is passed through)
HasEmptyLabel(h) ==
    /\ h # <<>>
    /\ LET parts == Split(h, ".")
           n     == Len(parts)
           kept  == IF parts[n] = <<>> THEN SubSeq(parts, 1, n - 1) ELSE parts
       IN \E i \in 1..Len(kept) : kept[i] = <<>>

\* what socket.create_connection((host, port), timeout=5) can do:
\* "connected", an OSError (timeout, refusal, resolution failure), or an
\* exception that is no OSError: UnicodeError from the idna step (build
\* dependent), OverflowError for a port that is no C long
\* (a negative port is refused by the resolver; a port beyond 65535 that is a
\* C long is passed on and connects or fails like any other)
ConnectOutcomes(h, p) ==
    IF HasEmptyLabel(h) THEN {"UnicodeError", "oserror"}
    ELSE IF ~FitsCLong(p) THEN {"OverflowError"}
    ELSE IF p.neg THEN {"oserror"}
    ELSE {"connected", "oserror"}

\* try: create_connection; return True
\* except (socket.timeout, socket.error): return False
\* the value returned, or the name of the exception that escapes
TestNetworkConnectivity(outcome) ==
    IF outcome = "connected" THEN "True"
    ELSE IF outcome = "oserror" THEN "False"
    ELSE outcome

-----------------------------------------------------------------------------
(* The graph client: GraphDatabase.driver, driver.session, session.run,    *)
(* result.single, driver.close                                             *)

\* the text of the error most failed attempts carry, and the unusual ones
StdMsg == <<"e", ".", "f">>
OddMsgs == {<<>>, <<".", "e">>}
Msgs == {StdMsg} \cup OddMsgs

\* where one probe fails: constructing the driver, opening the session,
\* running the query, reading the single record
FailStages == {"driver", "session", "run", "single"}

Outcomes ==
    {[stage |-> "ok", msg |-> <<>>]}
        \cup {[stage |-> st, msg |-> m] : st \in FailStages, m \in Msgs}

\* what an outcome takes from the run's budget of unusual outcomes
Cost(o) ==
    (IF o.stage = "driver" THEN 1 ELSE 0)
        + (IF o.stage # "ok" /\ o.msg # StdMsg THEN 1 ELSE 0)

Allowed(o) == anomalies + Cost(o) <= MaxAnomalies

\* str(e).split('.')[0]
FirstClause(msg) == Split(msg, ".")[1]

\* kind "list": entry `cand` of a script's candidate list; "current": the
\* interactive helper's first test; "manual": typed in; "kg": the
\* knowledge-graph test of discover's __main__
Attempt(kind, cand, user, password) ==
    [kind |-> kind, cand |-> cand, user |-> user, password |-> password]

\* a new driver object, owned by the attempt that constructs it
NewDriver == [owner |-> Len(attempts) + 1, open |-> TRUE]

CloseDriver(ds, d) == [ds EXCEPT ![d].open = FALSE]

\* a loop that stays on its entry
NextIndexSame(i) == i

\* the for loops: the entry after entry i
NextIndex(i) == i + 1

-----------------------------------------------------------------------------
(* diagnose_neo4j *)

\* test_scenarios
TestScenarios ==
    << [user |-> cfgUser, password |-> cfgPass],
       [user |-> Neo4j, password |-> Neo4j],
       [user |-> Neo4j, password |-> PasswordWord] >>

\* an exit that always reports success
FinishZero(code) ==
    /\ pc' = "done"
    /\ exitCode' = <<0>>

\* return from the script's function and sys.exit(code) in __main__
Finish(code) ==
    /\ pc' = "done"
    /\ exitCode' = <<code>>

\* lines 27-62: load the configuration, parse the URI, check the password
DiagStart ==
    /\ script = "diagnose" /\ pc = "start"
    /\ LET p == ParseURI(uri)
       IN \/ /\ p.kind = "unsupported"
             /\ Finish(1)
             /\ UNCHANGED <<endpoint, escaped>>
          \/ /\ p.kind = "ValueError"
             /\ escaped' = "ValueError"
             /\ Finish(1)
             /\ UNCHANGED endpoint
          \/ /\ p.kind = "ok"
             /\ endpoint' = <<[host |-> p.host, port |-> p.port]>>
             /\ IF cfgPass = <<>>
                THEN Finish(1)
                ELSE pc' = "network" /\ UNCHANGED exitCode
             /\ UNCHANGED escaped
    /\ UNCHANGED <<script, uri, cfgUser, cfgPass, prompts, netCalls, idx, driver,
                   drivers, closes, attempts, results, successful, verdict,
                   anomalies, rounds, envFile0, envFile, envWrites>>

\* lines 64-75: the reachability step
DiagNetwork ==
    /\ script = "diagnose" /\ pc = "network"
    /\ \E outcome \in ConnectOutcomes(endpoint[1].host, endpoint[1].port) :
         LET r == TestNetworkConnectivity(outcome)
         IN /\ netCalls' = netCalls + 1
            /\ IF r = "True"
               THEN pc' = "import" /\ UNCHANGED <<exitCode, escaped>>
               ELSE IF r = "False"
               THEN Finish(1) /\ UNCHANGED escaped
               ELSE Finish(1) /\ escaped' = r
    /\ UNCHANGED <<script, uri, cfgUser, cfgPass, prompts, endpoint, idx, driver,
                   drivers, closes, attempts, results, successful, verdict,
                   anomalies, rounds, envFile0, envFile, envWrites>>

\* lines 79-80 and 110-113: from neo4j import GraphDatabase
DiagImport ==
    /\ script = "diagnose" /\ pc = "import"
    /\ \E available \in BOOLEAN :
         IF available
         THEN pc' = "probe" /\ idx' = 1 /\ UNCHANGED exitCode
         ELSE Finish(1) /\ UNCHANGED idx
    /\ UNCHANGED <<script, uri, cfgUser, cfgPass, prompts, endpoint, netCalls, driver,
                   drivers, closes, attempts, results, successful, verdict,
                   anomalies, rounds, escaped, envFile0, envFile, envWrites>>

\* lines 89-108 (one iteration of the scenario loop), 114-128 after it
DiagProbe ==
    /\ script = "diagnose" /\ pc = "probe"
    /\ \E o \in Outcomes :
         LET c    == TestScenarios[idx]
             n    == Len(attempts) + 1
             d    == Len(drivers) + 1
             fail == [cand |-> idx, ok |-> FALSE, msg |-> o.msg,
                      summary |-> FirstClause(o.msg)]
             next == IF idx = Len(TestScenarios)
                     THEN Finish(1) /\ UNCHANGED idx
                     ELSE idx' = NextIndex(idx) /\ UNCHANGED <<pc, exitCode>>
         IN /\ Allowed(o)
            /\ anomalies' = anomalies + Cost(o)
            /\ attempts' = Append(attempts, Attempt("list", idx, c.user, c.password))
            /\ CASE o.stage = "ok" ->
                      \* driver built, query ran, driver.close(), return True
                      /\ drivers' = Append(drivers, [NewDriver EXCEPT !.open = FALSE])
                      /\ closes' = Append(closes, [by |-> n, of |-> d])
                      /\ driver' = d
                      /\ results' = Append(results,
                             [cand |-> idx, ok |-> TRUE, msg |-> <<>>,
                              summary |-> <<>>])
                      /\ verdict' = <<Attempt("list", idx, c.user, c.password)>>
                      /\ Finish(0)
                      /\ UNCHANGED idx
                 [] o.stage = "driver" /\ driver = 0 ->
                      \* `driver` is unbound in the handler: hasattr(driver,
                      \* 'close') raises, the outer handler ends the loop
                      /\ results' = Append(results, fail)
                      /\ Finish(1)
                      /\ UNCHANGED <<drivers, closes, driver, verdict, idx>>
                 [] o.stage = "driver" /\ driver # 0 ->
                      \* `driver` still names the previous iteration's driver
                      /\ results' = Append(results, fail)
                      /\ closes' = Append(closes, [by |-> n, of |-> driver])
                      /\ drivers' = CloseDriver(drivers, driver)
                      /\ next
                      /\ UNCHANGED <<driver, verdict>>
                 [] OTHER ->
                      /\ results' = Append(results, fail)
                      /\ drivers' = Append(drivers, [NewDriver EXCEPT !.open = FALSE])
                      /\ closes' = Append(closes, [by |-> n, of |-> d])
                      /\ driver' = d
                      /\ next
                      /\ UNCHANGED verdict
    /\ UNCHANGED <<script, uri, cfgUser, cfgPass, prompts, endpoint, netCalls,
                   successful, rounds, escaped, envFile0, envFile, envWrites>>

NextDiagnose == DiagStart \/ DiagNetwork \/ DiagImport \/ DiagProbe

-----------------------------------------------------------------------------
(* test_neo4j_with_credentials / test_credentials: one probe *)

\* the drivers after one call: the driver is closed inside the with block
\* on success only; no handler closes it when session, run or single raises
TestCredentials(o) ==
    CASE o.stage = "ok" ->
           [drivers |-> Append(drivers, [NewDriver EXCEPT !.open = FALSE]),
            closes  |-> Append(closes, [by |-> Len(attempts) + 1,
                                        of |-> Len(drivers) + 1])]
      [] o.stage = "driver" ->
           [drivers |-> drivers, closes |-> closes]
      [] OTHER ->
           [drivers |-> Append(drivers, NewDriver), closes |-> closes]

-----------------------------------------------------------------------------
(* discover_neo4j_credentials *)

\* credential_combinations; `empty` marks the entry described as
\* "Empty password", the only one probed with an empty password
CredentialCombinations ==
    << [user |-> cfgUser, password |-> cfgPass, empty |-> FALSE],
       [user |-> Neo4j, password |-> Neo4j, empty |-> FALSE],
       [user |-> Neo4j, password |-> PasswordWord, empty |-> FALSE],
       [user |-> Neo4j, password |-> Admin, empty |-> FALSE],
       [user |-> Neo4j, password |-> OneToSix, empty |-> FALSE],
       [user |-> Neo4j, password |-> TestWord, empty |-> FALSE],
       [user |-> Neo4j, password |-> <<>>, empty |-> TRUE],
       [user |-> Neo4j, password |-> Neo4jPassword, empty |-> FALSE],
       [user |-> Neo4j, password |-> Desktop, empty |-> FALSE] >>

\* line 58: if not password and description != "Empty password": continue
Skipped(c) == c.password = <<>> /\ ~c.empty

\* the last clause instead of the first
ErrorTypeLast(msg) == Split(msg, ".")[Len(Split(msg, "."))]

\* line 69: result.split('.')[0] if '.' in result else result
ErrorType(msg) == IF Contains(msg, ".") THEN Split(msg, ".")[1] ELSE msg

\* the last working combination instead of the first
DiscReturnLast(succ) ==
    IF succ # <<>>
    THEN /\ verdict' = <<Attempt("list", succ[Len(succ)],
                                 CredentialCombinations[succ[Len(succ)]].user,
                                 CredentialCombinations[succ[Len(succ)]].password)>>
         /\ pc' = "kg"
         /\ UNCHANGED exitCode
    ELSE /\ pc' = "done" /\ exitCode' = <<1>>
         /\ UNCHANGED verdict

\* lines 74-96 once the loop is over: best_creds = successful_credentials[0]
DiscReturn(succ) ==
    IF succ # <<>>
    THEN /\ verdict' = <<Attempt("list", succ[1],
                                 CredentialCombinations[succ[1]].user,
                                 CredentialCombinations[succ[1]].password)>>
         /\ pc' = "kg"
         /\ UNCHANGED exitCode
    ELSE /\ Finish(1)
         /\ UNCHANGED verdict

\* lines 57-72: one iteration of the combination loop
DiscProbe ==
    /\ script = "discover" /\ pc = "start"
    /\ LET c    == CredentialCombinations[idx]
           last == idx = Len(CredentialCombinations)
       IN IF Skipped(c)
          THEN /\ IF last THEN DiscReturn(successful) /\ UNCHANGED idx
                  ELSE idx' = NextIndex(idx) /\ UNCHANGED <<pc, exitCode, verdict>>
               /\ UNCHANGED <<drivers, closes, attempts, results, successful,
                              anomalies>>
          ELSE \E o \in Outcomes :
                 LET t    == TestCredentials(o)
                     succ == IF o.stage = "ok"
                             THEN Append(successful, idx) ELSE successful
                 IN /\ Allowed(o)
                    /\ anomalies' = anomalies + Cost(o)
                    /\ attempts' = Append(attempts,
                           Attempt("list", idx, c.user, c.password))
                    /\ drivers' = t.drivers
                    /\ closes' = t.closes
                    /\ results' = Append(results,
                           IF o.stage = "ok"
                           THEN [cand |-> idx, ok |-> TRUE, msg |-> <<>>,
                                 summary |-> <<>>]
                           ELSE [cand |-> idx, ok |-> FALSE, msg |-> o.msg,
                                 summary |-> ErrorType(o.msg)])
                    /\ successful' = succ
                    /\ IF last THEN DiscReturn(succ) /\ UNCHANGED idx
                       ELSE idx' = NextIndex(idx)
                            /\ UNCHANGED <<pc, exitCode, verdict>>
    /\ UNCHANGED <<script, uri, cfgUser, cfgPass, prompts, endpoint, netCalls, driver,
                   rounds, escaped, envFile0, envFile, envWrites>>

\* lines 98-165 and 171-174: test_knowledge_graph_operations(user, password)
\* with the best credentials, then sys.exit(0 if kg_success else 1)
DiscKnowledgeGraph ==
    /\ script = "discover" /\ pc = "kg"
    /\ \E stage \in {"ok", "run"} :
         /\ attempts' = Append(attempts,
                Attempt("kg", 0, verdict[1].user, verdict[1].password))
         /\ CASE stage = "ok" ->
                   /\ drivers' = Append(drivers, [NewDriver EXCEPT !.open = FALSE])
                   /\ closes' = Append(closes, [by |-> Len(attempts) + 1,
                                                of |-> Len(drivers) + 1])
                   /\ Finish(0)
              [] OTHER ->
                   /\ drivers' = Append(drivers, NewDriver)
                   /\ UNCHANGED closes
                   /\ Finish(1)
    /\ UNCHANGED <<script, uri, cfgUser, cfgPass, prompts, endpoint, netCalls, idx,
                   driver, results, successful, verdict, anomalies, rounds,
                   escaped, envFile0, envFile, envWrites>>

NextDiscover == DiscProbe \/ DiscKnowledgeGraph

-----------------------------------------------------------------------------
(* update_env_file *)

UserKey == <<"N", "E", "O", "4", "J", "_", "U", "S", "E", "R", "=">>
PassKey == <<"N", "E", "O", "4", "J", "_", "P", "A", "S", "S", "W", "O", "R",
             "D", "=">>

NoFile == [exists |-> FALSE, text |-> <<>>]
File(text) == [exists |-> TRUE, text |-> text]

\* index of the first c in s (s contains c)
IndexOf(s, c) ==
    CHOOSE k \in 1..Len(s) : s[k] = c /\ \A j \in 1..(k - 1) : s[j] # c

\* open(env_path, 'r'): text mode reads '\r\n' and '\r' as '\n'
RECURSIVE ReadText(_)
ReadText(b) ==
    IF b = <<>> THEN <<>>
    ELSE IF b[1] = "\r"
         THEN IF Len(b) >= 2 /\ b[2] = "\n"
              THEN <<"\n">> \o ReadText(SubSeq(b, 3, Len(b)))
              ELSE <<"\n">> \o ReadText(Tail(b))
         ELSE <<b[1]>> \o ReadText(Tail(b))

\* f.readlines(): lines with their '\n'; the last one may have none
RECURSIVE ReadLines(_)
ReadLines(t) ==
    IF t = <<>> THEN <<>>
    ELSE IF ~Contains(t, "\n") THEN <<t>>
    ELSE LET i == IndexOf(t, "\n")
         IN <<SubSeq(t, 1, i)>> \o ReadLines(SubSeq(t, i + 1, Len(t)))

\* lines 45-53: the replacement of one line
UpdateLine(line, user, password) ==
    IF StartsWith(line, UserKey) THEN UserKey \o user \o <<"\n">>
    ELSE IF StartsWith(line, PassKey) THEN PassKey \o password \o <<"\n">>
    ELSE line

\* lines 56-59: the entries added when no line carried the key
MissingEntries(lines, user, password) ==
    (IF \E i \in 1..Len(lines) : StartsWith(lines[i], UserKey)
     THEN <<>> ELSE <<UserKey \o user \o <<"\n">>>>)
        \o (IF \E i \in 1..Len(lines) : StartsWith(lines[i], PassKey)
            THEN <<>> ELSE <<PassKey \o password \o <<"\n">>>>)

\* lines 28-66: the file after update_env_file(user, password); a missing
\* file is left missing (return False); f.writelines writes '\n' as it is
UpdateEnvFile(file, user, password) ==
    IF ~file.exists THEN file
    ELSE LET lines == ReadLines(ReadText(file.text))
             updated == [i \in 1..Len(lines) |->
                            UpdateLine(lines[i], user, password)]
         IN File(Flatten(updated \o MissingEntries(lines, user, password)))

\* update_env_file called on its own, with the pair held in verdict
EnvUpdate ==
    /\ script = "envtool" /\ pc = "start"
    /\ envFile' = UpdateEnvFile(envFile, verdict[1].user, verdict[1].password)
    /\ envWrites' = IF envFile.exists
                    THEN Append(envWrites, <<verdict[1].user, verdict[1].password>>)
                    ELSE envWrites
    /\ pc' = "done"
    /\ UNCHANGED <<script, uri, cfgUser, cfgPass, prompts, endpoint, netCalls, idx,
                   driver, drivers, closes, attempts, results, successful,
                   verdict, anomalies, rounds, escaped, exitCode, envFile0>>

NextEnv == EnvUpdate

-----------------------------------------------------------------------------
(* interactive_credential_helper *)

\* common_passwords
CommonPasswords ==
    <<PasswordWord, Admin, OneToSix, TestWord, Neo4jPassword, Desktop, <<>>>>

\* what the terminal can supply
TypedUsers == {<<>>, <<"b", "o", "b">>}
TypedPasswords == {<<"s", "3">>}
Answers == {"y", "yes", " Y ", "n", ""}

\* input(...).strip().lower()
StripLower(a) == IF a = " Y " THEN "y" ELSE a

\* an update that does not look at the answer
SucceedAlways(kind, cand, user, password, answer) ==
    /\ verdict' = <<Attempt(kind, cand, user, password)>>
    /\ envFile' = UpdateEnvFile(envFile, user, password)
    /\ envWrites' = IF envFile.exists
                    THEN Append(envWrites, <<user, password>>)
                    ELSE envWrites
    /\ prompts' = Append(prompts, answer)
    /\ pc' = "done"
    /\ exitCode' = <<0>>

\* lines 114-118 / 141-145: the update prompt after a successful test
Succeed(kind, cand, user, password, answer) ==
    /\ verdict' = <<Attempt(kind, cand, user, password)>>
    /\ IF StripLower(answer) \in {"y", "yes"}
       THEN /\ envFile' = UpdateEnvFile(envFile, user, password)
            /\ envWrites' = IF envFile.exists
                            THEN Append(envWrites, <<user, password>>)
                            ELSE envWrites
       ELSE UNCHANGED <<envFile, envWrites>>
    /\ prompts' = Append(prompts, answer)
    /\ Finish(0)

\* the bookkeeping of one test_credentials call
Probe(kind, cand, user, password, o) ==
    /\ Allowed(o)
    /\ anomalies' = anomalies + Cost(o)
    /\ attempts' = Append(attempts, Attempt(kind, cand, user, password))
    /\ drivers' = TestCredentials(o).drivers
    /\ closes' = TestCredentials(o).closes

\* lines 71-94: the current credentials are tested first when a password is set
IntStart ==
    /\ script = "interactive" /\ pc = "start"
    /\ IF cfgPass = <<>>
       THEN /\ pc' = "menu"
            /\ UNCHANGED <<drivers, closes, attempts, results, verdict,
                           anomalies, exitCode>>
       ELSE \E o \in Outcomes :
              /\ Probe("current", 0, cfgUser, cfgPass, o)
              /\ IF o.stage = "ok"
                 THEN /\ verdict' = <<Attempt("current", 0, cfgUser, cfgPass)>>
                      /\ results' = Append(results,
                             [cand |-> 0, ok |-> TRUE, msg |-> <<>>,
                              summary |-> <<>>])
                      /\ Finish(0)
                 ELSE /\ results' = Append(results,
                             [cand |-> 0, ok |-> FALSE, msg |-> o.msg,
                              summary |-> FirstClause(o.msg)])
                      /\ pc' = "menu"
                      /\ UNCHANGED <<verdict, exitCode>>
    /\ UNCHANGED <<script, uri, cfgUser, cfgPass, prompts, endpoint, netCalls, idx,
                   driver, successful, rounds, escaped, envFile0, envFile,
                   envWrites>>

\* lines 96-120 and 151-155: one menu iteration other than the sweep
IntMenu ==
    /\ script = "interactive" /\ pc = "menu"
    /\ \E choice \in {"1", "3", "other"} :
         CASE choice = "1" ->
                /\ rounds < MaxRounds
                /\ \E typed \in TypedUsers, password \in TypedPasswords,
                      o \in Outcomes, answer \in Answers :
                     LET user == IF typed = <<>> THEN cfgUser ELSE typed
                     IN /\ Probe("manual", 0, user, password, o)
                        /\ IF o.stage = "ok"
                           THEN /\ Succeed("manual", 0, user, password, answer)
                                /\ results' = Append(results,
                                       [cand |-> 0, ok |-> TRUE, msg |-> <<>>,
                                        summary |-> <<>>])
                                /\ UNCHANGED rounds
                           ELSE /\ results' = Append(results,
                                       [cand |-> 0, ok |-> FALSE, msg |-> o.msg,
                                        summary |-> FirstClause(o.msg)])
                                /\ rounds' = rounds + 1
                                /\ UNCHANGED <<pc, verdict, exitCode, envFile,
                                               envWrites, prompts>>
           [] choice = "3" ->
                /\ Finish(1)
                /\ UNCHANGED <<drivers, closes, attempts, results, verdict,
                               anomalies, rounds, envFile, envWrites, prompts>>
           [] OTHER ->
                /\ rounds < MaxRounds
                /\ rounds' = rounds + 1
                /\ UNCHANGED <<pc, drivers, closes, attempts, results, verdict,
                               anomalies, exitCode, envFile, envWrites, prompts>>
    /\ UNCHANGED <<script, uri, cfgUser, cfgPass, endpoint, netCalls, idx,
                   driver, successful, escaped, envFile0>>

\* lines 122-131: choice "2" starts the sweep over common_passwords
IntChooseSweep ==
    /\ script = "interactive" /\ pc = "menu"
    /\ rounds < MaxRounds
    /\ pc' = "sweep"
    /\ idx' = 1
    /\ UNCHANGED <<script, uri, cfgUser, cfgPass, prompts, endpoint, netCalls, driver,
                   drivers, closes, attempts, results, successful, verdict,
                   anomalies, rounds, escaped, exitCode, envFile0, envFile,
                   envWrites>>

\* lines 133-149: one iteration of the sweep
IntSweep ==
    /\ script = "interactive" /\ pc = "sweep"
    /\ \E o \in Outcomes, answer \in Answers :
         LET password == CommonPasswords[idx]
         IN /\ Probe("list", idx, cfgUser, password, o)
            /\ IF o.stage = "ok"
               THEN /\ Succeed("list", idx, cfgUser, password, answer)
                    /\ results' = Append(results,
                           [cand |-> idx, ok |-> TRUE, msg |-> <<>>,
                            summary |-> <<>>])
                    /\ UNCHANGED <<idx, rounds>>
               ELSE /\ results' = Append(results,
                           [cand |-> idx, ok |-> FALSE, msg |-> <<>>,
                            summary |-> <<>>])
                    /\ IF idx = Len(CommonPasswords)
                       THEN pc' = "menu" /\ rounds' = rounds + 1
                            /\ UNCHANGED idx
                       ELSE idx' = NextIndex(idx) /\ UNCHANGED <<pc, rounds>>
                    /\ UNCHANGED <<verdict, exitCode, envFile, envWrites, prompts>>
    /\ UNCHANGED <<script, uri, cfgUser, cfgPass, endpoint, netCalls, driver,
                   successful, escaped, envFile0>>

NextInteractive == IntStart \/ IntMenu \/ IntChooseSweep \/ IntSweep

-----------------------------------------------------------------------------
(* Configurations and specifications *)

\* (NEO4J_USER, NEO4J_PASSWORD): the defaults, a pair that also is a listed
\* default, a pair of its own
CfgPairs ==
    { [user |-> Neo4j, password |-> <<>>],
      [user |-> Neo4j, password |-> PasswordWord],
      [user |-> <<"b", "o", "b">>, password |-> <<"s", "3">>] }

\* characters of the enumerated host[:port] remainders
RemChars == {"h", ".", ":", "7"}
Remainders == UNION {[1..k -> RemChars] : k \in 0..MaxRemLen}
Schemes == {Bolt, Neo4jScheme, <<>>}

\* every scheme with every short remainder, and remainders of their own:
\* a port beyond a C long, a port beyond 65535, a negative port, a text port,
\* the scheme text inside the remainder
LongRemainders ==
    { <<"h", ":">> \o [i \in 1..20 |-> "9"],
      <<"h", ":", "7", "0", "0", "0", "0">>,
      <<"h", ":", "-", "7">>,
      <<"h", ":", "x">>,
      <<"h">> \o Bolt \o <<"h">> }
AllURIs ==
    {sch \o rem : sch \in Schemes, rem \in Remainders}
        \cup {Bolt \o rem : rem \in LongRemainders}

SampleURIs ==
    { DefaultURI,
      Bolt \o <<"h">>,
      Bolt \o <<".", "h", ":", "7">>,
      Neo4jScheme \o <<"h", ":", "7">> }
        \cup {Bolt \o rem : rem \in LongRemainders}

\* .env files made of a few segments
EnvSegs ==
    { UserKey \o <<"o">>, PassKey \o <<"o">>, <<"a">>, <<"\n">>, <<"\r">>,
      <<"N">> }
EnvTexts ==
    {Flatten(ss) : ss \in UNION {[1..k -> EnvSegs] : k \in 0..MaxSegs}}
SampleEnvFiles == {NoFile, File(UserKey \o <<"o", "\n", "a">>)}

InitCommon ==
    /\ pc = "start"
    /\ endpoint = <<>>
    /\ netCalls = 0
    /\ idx = 1
    /\ driver = 0
    /\ drivers = <<>>
    /\ closes = <<>>
    /\ attempts = <<>>
    /\ results = <<>>
    /\ successful = <<>>
    /\ anomalies = 0
    /\ rounds = 0
    /\ escaped = "none"
    /\ exitCode = <<>>
    /\ envWrites = <<>>
    /\ prompts = <<>>
    /\ envFile = envFile0

\* the three scripts, each started from a configuration
Init ==
    /\ script \in {"diagnose", "discover", "interactive"}
    /\ uri \in (IF script = "diagnose" THEN SampleURIs ELSE {DefaultURI})
    /\ \E c \in CfgPairs : cfgUser = c.user /\ cfgPass = c.password
    /\ envFile0 \in (IF script = "interactive" THEN SampleEnvFiles
                     ELSE {NoFile})
    /\ verdict = <<>>
    /\ InitCommon

Next == NextDiagnose \/ NextDiscover \/ NextInteractive

Spec == Init /\ [][Next]_vars

\* diagnose_neo4j over every enumerated URI
InitParse ==
    /\ script = "diagnose"
    /\ uri \in AllURIs
    /\ \E c \in CfgPairs : cfgUser = c.user /\ cfgPass = c.password
    /\ envFile0 = NoFile
    /\ verdict = <<>>
    /\ InitCommon

SpecParse == InitParse /\ [][NextDiagnose]_vars

\* update_env_file over every enumerated .env file and pair
InitEnv ==
    /\ script = "envtool"
    /\ uri = DefaultURI
    /\ cfgUser = Neo4j /\ cfgPass = <<>>
    /\ envFile0 \in {NoFile} \cup {File(t) : t \in EnvTexts}
    /\ \E u \in {Neo4j, <<>>}, p \in {<<"s", "3">>, <<>>} :
         verdict = <<Attempt("manual", 0, u, p)>>
    /\ InitCommon

SpecEnv == InitEnv /\ [][NextEnv]_vars

-----------------------------------------------------------------------------
(* State functions the properties use *)

Done == pc = "done"

ProbingScript == script \in {"diagnose", "discover"}

CandidateCount ==
    IF script = "diagnose" THEN Len(TestScenarios)
    ELSE Len(CredentialCombinations)

\* attempts made for entry i of the candidate list
AttemptsFor(i) ==
    {n \in 1..Len(attempts) :
        attempts[n].kind = "list" /\ attempts[n].cand = i}

\* result lines printed for entry i of the candidate list
ResultsFor(i) == {n \in 1..Len(results) : results[n].cand = i}

AnySuccess == \E n \in 1..Len(results) : results[n].ok

\* sm is the text of msg before its first '.' (all of msg if it has none)
IsFirstClauseOf(sm, msg) ==
    /\ Len(sm) <= Len(msg)
    /\ SubSeq(msg, 1, Len(sm)) = sm
    /\ ~Contains(sm, ".")
    /\ Len(sm) = Len(msg) \/ msg[Len(sm) + 1] = "."

\* the entries of discover's list that are not passed over
Probed(i) ==
    \/ CredentialCombinations[i].password # <<>>
    \/ CredentialCombinations[i].empty

\* discover's knowledge-graph test ran to its end
KgSucceeded ==
    \E n \in 1..Len(attempts), d \in 1..Len(drivers) :
        attempts[n].kind = "kg" /\ drivers[d].owner = n /\ ~drivers[d].open

-----------------------------------------------------------------------------
(* C1 *)

\* C1 as stated: in diagnose_neo4j and discover_neo4j_credentials, when
\* candidate k is the first to succeed and candidates 1..k-1 were probed and
\* failed, exactly k probe attempts are made, none after k, and k is the
\* verdict.
C1_ShortCircuit ==
    \A k \in 1..Len(results) :
        ( /\ ProbingScript
          /\ results[k].ok /\ results[k].cand = k
          /\ \A j \in 1..(k - 1) : ~results[j].ok )
        => /\ Len(results) = k
           /\ Len(attempts) = k
           /\ pc \in {"kg", "done"} => verdict # <<>> /\ verdict[1].cand = k

\* C1, amended: diagnose_neo4j's scenario loop short-circuits: the first
\* candidate whose session and query succeed is the verdict, its 1-based
\* position is the number of probe attempts made, every earlier candidate
\* failed and the run ends there. discover_neo4j_credentials' combination
\* loop does not short-circuit: it probes every combination it does not pass
\* over, also those after the first success, and reports the first
\* successful one as the verdict.
C1_FirstSuccessIsVerdict ==
    /\ script = "diagnose" =>
         \A k \in 1..Len(results) :
             results[k].ok =>
                 /\ Len(results) = k /\ Len(attempts) = k
                 /\ results[k].cand = k /\ attempts[k].cand = k
                 /\ \A j \in 1..(k - 1) : ~results[j].ok /\ results[j].cand = j
                 /\ Done
                 /\ verdict = <<Attempt("list", k, TestScenarios[k].user,
                                        TestScenarios[k].password)>>
    /\ (script = "discover" /\ pc \in {"kg", "done"}) =>
         /\ \A i \in 1..Len(CredentialCombinations) :
                Cardinality(AttemptsFor(i)) = (IF Probed(i) THEN 1 ELSE 0)
         /\ AnySuccess =>
                /\ verdict # <<>>
                /\ \E n \in 1..Len(results) :
                       /\ results[n].ok /\ results[n].cand = verdict[1].cand
                       /\ \A m \in 1..(n - 1) : ~results[m].ok
                /\ verdict[1].user = CredentialCombinations[verdict[1].cand].user
                /\ verdict[1].password
                       = CredentialCombinations[verdict[1].cand].password
         /\ ~AnySuccess => verdict = <<>>

\* diagnose_neo4j ended on its second scenario after the first one failed
C1_Witness ==
    /\ script = "diagnose" /\ Done
    /\ Len(results) = 2 /\ ~results[1].ok /\ results[2].ok
    /\ verdict # <<>> /\ verdict[1].cand = 2

-----------------------------------------------------------------------------
(* C2 *)

\* the run is over, every candidate that was probed failed, and the run was
\* not ended by the scheme, the reachability step or a missing driver package
AllCandidatesFailed ==
    /\ ProbingScript /\ Done /\ ~AnySuccess /\ escaped = "none"
    /\ script = "diagnose" =>
           endpoint # <<>> /\ (netCalls = 0 \/ attempts # <<>>)

\* one attempt and one failure line, with a summary, for entry i
FailureReported(i) ==
    /\ Cardinality(AttemptsFor(i)) = 1
    /\ Cardinality(ResultsFor(i)) = 1
    /\ \A n \in ResultsFor(i) : ~results[n].ok

\* C2 as stated: for every configuration, the empty configured password
\* included, when all candidates fail the run ends with no verdict and with
\* one attempt and one failure result per candidate of the list, each with a
\* non-empty error summary.
C2_Exhaustive ==
    AllCandidatesFailed =>
        /\ verdict = <<>>
        /\ \A i \in 1..CandidateCount :
               /\ FailureReported(i)
               /\ \A n \in ResultsFor(i) : results[n].summary # <<>>

\* C2, amended: when all candidates fail the run ends with no verdict. With
\* a non-empty configured password discover_neo4j_credentials makes one
\* attempt and prints one failure result for each of its nine combinations,
\* and diagnose_neo4j for each of its three scenarios, except that
\* diagnose_neo4j stops after its first scenario when that scenario's driver
\* construction raised. With an empty configured password diagnose_neo4j
\* ends before any probe and discover passes over the configured
\* combination and probes the other eight. Each failure result carries the
\* error text before its first '.', which is non-empty exactly when the
\* error text is non-empty and does not begin with '.'.
C2_FailuresReported ==
    AllCandidatesFailed =>
        /\ verdict = <<>>
        /\ Len(results) = Len(attempts)
        /\ \A n \in 1..Len(results) :
               /\ results[n].cand = attempts[n].cand
               /\ ~results[n].ok
               /\ IsFirstClauseOf(results[n].summary, results[n].msg)
               /\ results[n].summary # <<>>
                      <=> (results[n].msg # <<>> /\ results[n].msg[1] # ".")
        /\ script = "discover" =>
               \A i \in 1..Len(CredentialCombinations) :
                   IF Probed(i) THEN FailureReported(i)
                   ELSE AttemptsFor(i) = {} /\ ResultsFor(i) = {}
        /\ (script = "discover" /\ cfgPass # <<>>) =>
               Len(results) = Len(CredentialCombinations)
        /\ (script = "discover" /\ cfgPass = <<>>) =>
               Len(results) = Len(CredentialCombinations) - 1
        /\ (script = "diagnose" /\ cfgPass = <<>>) =>
               attempts = <<>> /\ netCalls = 0
        /\ (script = "diagnose" /\ cfgPass # <<>>) =>
               IF \E d \in 1..Len(drivers) : drivers[d].owner = 1
               THEN \A i \in 1..Len(TestScenarios) : FailureReported(i)
               ELSE Len(attempts) = 1 /\ FailureReported(1)

\* discover ended with nine failure results, all with a summary
C2_Witness ==
    /\ script = "discover" /\ Done /\ verdict = <<>>
    /\ Len(results) = Len(CredentialCombinations)
    /\ \A n \in 1..Len(results) :
           ~results[n].ok /\ results[n].summary = <<"e">>

-----------------------------------------------------------------------------
(* C3 *)

\* C3 as stated: an exception of the graph client for candidate i, driver
\* construction for the first candidate included, is a failure of candidate
\* i only: it never leaves the probing loop and never keeps the candidates
\* after i from being probed. So a run whose probed candidates all failed
\* has probed every candidate of its list.
C3_Isolation ==
    (ProbingScript /\ Done /\ attempts # <<>> /\ ~AnySuccess) =>
        \A i \in 1..CandidateCount :
            (script = "discover" /\ ~Probed(i)) \/ AttemptsFor(i) # {}

-----------------------------------------------------------------------------
(* C4 *)

\* C4 as stated: every probe attempt that creates a driver has closed it
\* before the next candidate is attempted and before the run ends, on every
\* path, and no attempt closes another candidate's driver. Each action is
\* one whole attempt, so in every state all drivers are closed and every
\* close was made by the attempt that owns the driver.
C4_Release ==
    /\ \A d \in 1..Len(drivers) : ~drivers[d].open
    /\ \A c \in 1..Len(closes) : drivers[closes[c].of].owner = closes[c].by

-----------------------------------------------------------------------------
(* C5 *)

\* C5 as stated: each script exits with 0 if and only if some candidate
\* authenticated and its confirmation query succeeded, and with 1 otherwise.
C5_ExitCode ==
    exitCode # <<>> =>
        /\ exitCode \in {<<0>>, <<1>>}
        /\ exitCode = <<0>> <=> AnySuccess

\* C5, amended: diagnose_neo4j and the interactive helper exit with 0 if and
\* only if some candidate authenticated and its confirmation query
\* succeeded, and with 1 otherwise; discover_neo4j_credentials exits with 0
\* if and only if, in addition, its knowledge-graph test with the verdict's
\* credentials succeeded, and with 1 otherwise.
C5_ExitCodeByScript ==
    exitCode # <<>> =>
        /\ Done
        /\ exitCode \in {<<0>>, <<1>>}
        /\ exitCode = <<0>> <=>
               (AnySuccess /\ (script = "discover" => KgSucceeded))

\* discover found working credentials and exited with 1
C5_Witness ==
    /\ script = "discover" /\ Done
    /\ AnySuccess /\ verdict # <<>>
    /\ exitCode = <<1>>

-----------------------------------------------------------------------------
(* C6 *)

\* C6: for every URI that does not start with bolt://, diagnose_neo4j fails
\* the run by returning False (exit code 1, no exception) and makes neither
\* the reachability connect nor any driver or authentication attempt.
C6_UnsupportedSchemeFatal ==
    (script = "diagnose" /\ ~StartsWith(uri, Bolt)) =>
        /\ netCalls = 0 /\ attempts = <<>> /\ drivers = <<>>
        /\ endpoint = <<>>
        /\ pc \in {"start", "done"}
        /\ Done => exitCode = <<1>> /\ escaped = "none" /\ verdict = <<>>

\* diagnose_neo4j ended on a neo4j:// URI
C6_Witness ==
    /\ script = "diagnose" /\ Done
    /\ uri = Neo4jScheme \o <<"h", ":", "7">>
    /\ exitCode = <<1>> /\ netCalls = 0

-----------------------------------------------------------------------------
(* C7 *)

\* the lines of a file's bytes that carry neither key, terminators included
OtherLines(bytes) ==
    SelectSeq(ReadLines(bytes),
              LAMBDA l : ~StartsWith(l, UserKey) /\ ~StartsWith(l, PassKey))

\* C7 as stated: for every existing .env content, with or without a final
\* newline, update_env_file(user, password) yields a file in which every
\* USER/PASSWORD line carries the new value, a USER and a PASSWORD line
\* exist, and every other original line is present unchanged, byte for
\* byte, in its original order.
C7_Rewrite ==
    (script = "envtool" /\ Done /\ envFile0.exists) =>
        LET new == ReadLines(envFile.text)
            u   == UserKey \o verdict[1].user \o <<"\n">>
            p   == PassKey \o verdict[1].password \o <<"\n">>
        IN /\ envFile.exists
           /\ OtherLines(envFile.text) = OtherLines(envFile0.text)
           /\ \A i \in 1..Len(new) :
                  /\ StartsWith(new[i], UserKey) => new[i] = u
                  /\ StartsWith(new[i], PassKey) => new[i] = p
           /\ \E i \in 1..Len(new) : new[i] = u
           /\ \E i \in 1..Len(new) : new[i] = p

-----------------------------------------------------------------------------
(* C8 *)

SamePair(a, b) == a.user = b.user /\ a.password = b.password

\* the attempts made for entries of a candidate list, in order
ListAttempts == SelectSeq(attempts, LAMBDA a : a.kind = "list")

\* C8 as stated: within one run each username/password pair is submitted to
\* the graph client at most once, whatever the menu choices.
C8_NoRetries ==
    \A i, j \in 1..Len(attempts) :
        i < j => ~SamePair(attempts[i], attempts[j])

\* C8, amended: within one pass over a candidate list (diagnose_neo4j's
\* scenarios, discover's combinations, one sweep of the interactive helper)
\* the entries are submitted in list order, each at most once, and discover
\* submits each combination it does not pass over exactly once. The same
\* pair can be submitted again in the same run: when the configured pair is
\* also a listed one, when the sweep or manual entry is chosen again, and
\* in discover's knowledge-graph test.
C8_OncePerListEntry ==
    /\ ProbingScript =>
         /\ \A i \in 1..CandidateCount : Cardinality(AttemptsFor(i)) <= 1
         /\ \A n \in 1..(Len(ListAttempts) - 1) :
                ListAttempts[n].cand < ListAttempts[n + 1].cand
    /\ (script = "discover" /\ pc \in {"kg", "done"}) =>
         \A i \in 1..CandidateCount :
             Cardinality(AttemptsFor(i)) = (IF Probed(i) THEN 1 ELSE 0)
    /\ script = "interactive" =>
         /\ ListAttempts # <<>> => ListAttempts[1].cand = 1
         /\ \A n \in 1..(Len(ListAttempts) - 1) :
                \/ ListAttempts[n + 1].cand = ListAttempts[n].cand + 1
                \/ /\ ListAttempts[n].cand = Len(CommonPasswords)
                   /\ ListAttempts[n + 1].cand = 1
         /\ \A n \in 1..Len(ListAttempts) :
                /\ ListAttempts[n].user = cfgUser
                /\ ListAttempts[n].password
                       = CommonPasswords[ListAttempts[n].cand]

\* the interactive helper swept the common passwords twice
C8_Witness ==
    /\ script = "interactive"
    /\ \A i \in 1..Len(CommonPasswords) : Cardinality(AttemptsFor(i)) = 2

-----------------------------------------------------------------------------
(* C9 *)

\* C9 as stated: for every host and port the parse step can produce and
\* every outcome of the connect, test_network_connectivity returns True or
\* False and lets no exception escape.
C9_NeverRaises == netCalls > 0 => escaped = "none"

-----------------------------------------------------------------------------
(* C10 *)

\* the text of the URI after its first seven characters
Remainder == SubSeq(uri, Len(Bolt) + 1, Len(uri))

\* C10: for every URI bolt://host whose remainder holds no ':', the parse
\* step yields the remainder as the host, unchanged, and port 7687.
C10_DefaultPort ==
    ( /\ script = "diagnose" /\ pc # "start"
      /\ StartsWith(uri, Bolt) /\ ~Contains(Remainder, ":") )
    => endpoint = <<[host |-> Remainder,
                     port |-> [neg |-> FALSE, mag |-> <<7, 6, 8, 7>>]]>>

\* diagnose_neo4j parsed bolt://h.h
C10_Witness ==
    /\ script = "diagnose" /\ pc # "start"
    /\ uri = Bolt \o <<"h", ".", "h">>
    /\ endpoint # <<>>
    /\ endpoint[1].host = <<"h", ".", "h">>
    /\ endpoint[1].port.mag = <<7, 6, 8, 7>>

-----------------------------------------------------------------------------
(* C11 *)

\* index of the last c in s (s contains c)
LastIndexOf(s, c) ==
    CHOOSE k \in 1..Len(s) : s[k] = c /\ \A j \in (k + 1)..Len(s) : s[j] # c

\* the remainder before and after its last ':'
BeforeLastColon == SubSeq(Remainder, 1, LastIndexOf(Remainder, ":") - 1)
AfterLastColon ==
    SubSeq(Remainder, LastIndexOf(Remainder, ":") + 1, Len(Remainder))

\* C11 as stated: for every URI bolt://... whose remainder holds one or more
\* ':' and an integer after the last one, the parse step raises nothing and
\* yields host = everything before the last ':', passed through even if it
\* holds ':' itself, and port = the integer after it.
C11_LastColonSplit ==
    ( /\ script = "diagnose" /\ pc # "start"
      /\ StartsWith(uri, Bolt) /\ Contains(Remainder, ":")
      /\ IsIntLiteral(AfterLastColon) )
    => /\ escaped # "ValueError"
       /\ endpoint # <<>>
       /\ endpoint[1].host = BeforeLastColon
       /\ endpoint[1].port = IntOf(AfterLastColon)

-----------------------------------------------------------------------------
(* C12 *)

\* the answers that are y or yes once stripped and lower-cased
Affirmative(a) == a \in {"y", "yes", " Y "}

\* t holds w as a run of consecutive characters
HoldsText(t, w) ==
    \E i \in 1..(Len(t) - Len(w) + 1) : SubSeq(t, i, i + Len(w) - 1) = w

\* C12: in the interactive helper, whatever the menu choices and test
\* outcomes, .env is written only right after a credential test that
\* succeeded and an affirmative answer to the update prompt, and what is
\* written is the pair that just succeeded; after failed tests, invalid
\* choices, Exit or another answer the file is as it was, and a missing
\* .env is never created.
C12_EnvWrittenOnlyOnConfirmedSuccess ==
    script = "interactive" =>
        /\ Len(envWrites) <= 1 /\ Len(prompts) <= 1
        /\ envWrites = <<>> => envFile = envFile0
        /\ prompts # <<>> =>
               /\ Done /\ exitCode = <<0>>
               /\ results[Len(results)].ok
               /\ verdict = <<attempts[Len(attempts)]>>
               /\ verdict[1].kind \in {"manual", "list"}
        /\ (prompts # <<>> /\ ~Affirmative(prompts[1])) =>
               envWrites = <<>> /\ envFile = envFile0
        /\ envWrites # <<>> =>
               /\ prompts # <<>> /\ Affirmative(prompts[1])
               /\ envFile0.exists /\ envFile.exists
               /\ envWrites[1] = <<attempts[Len(attempts)].user,
                                   attempts[Len(attempts)].password>>
               /\ HoldsText(envFile.text,
                      UserKey \o attempts[Len(attempts)].user \o <<"\n">>)
               /\ HoldsText(envFile.text,
                      PassKey \o attempts[Len(attempts)].password \o <<"\n">>)
        /\ (~Done \/ exitCode = <<1>>) => envWrites = <<>> /\ prompts = <<>>
        /\ ~envFile0.exists => envFile = NoFile /\ envWrites = <<>>

\* the sweep found a working password, the answer was affirmative and .env
\* was rewritten with that pair
C12_Witness ==
    /\ script = "interactive" /\ Done
    /\ prompts = <<" Y ">>
    /\ verdict # <<>> /\ verdict[1].kind = "list"
    /\ envWrites = <<<<verdict[1].user, verdict[1].password>>>>
    /\ envFile # envFile0
    /\ Len(results) > 1

====
